---- MODULE Spec2Model ----
(***************************************************************************)
(* Model of opcodes.py: the ordered rule table `opcodes`, the `matchers`   *)
(* list compiled from it, the first-match decoder `match`, and the         *)
(* recursive table-size estimator `check` with its process-wide registry   *)
(* `luts`.                                                                 *)
(*                                                                         *)
(* The script walks the word one nibble per level over MaxLvl = 4 levels.  *)
(* The width of one nibble is the definition NibbleBits; the script uses   *)
(* 4 (16-bit words, 16 children per Branch).  Every width in the model is  *)
(* derived from NibbleBits and MaxLvl, so the same definitions describe    *)
(* the script for any nibble width.                                        *)
(***************************************************************************)
EXTENDS Integers, Sequences, FiniteSets, TLC

VARIABLES opcodes, matchers, pc, luts, calls, tree, decoded

vars == <<opcodes, matchers, pc, luts, calls, tree, decoded>>

----------------------------------------------------------------------------
(* Geometry of the word.                                                   *)

NibbleBits == 1

MaxLvl == 4

MaxRules == 2

MaxCalls == 2

WordBits == MaxLvl * NibbleBits

Fanout == 2 ^ NibbleBits

NumWords == 2 ^ WordBits

Words == 0 .. (NumWords - 1)

----------------------------------------------------------------------------
(* Python's integer operators on non-negative integers.                    *)

RECURSIVE BitAnd(_, _)
BitAnd(a, b) ==
    IF a = 0 \/ b = 0 THEN 0
    ELSE ((a % 2) * (b % 2)) + 2 * BitAnd(a \div 2, b \div 2)

RECURSIVE BitOr(_, _)
BitOr(a, b) ==
    IF a = 0 THEN b
    ELSE IF b = 0 THEN a
    ELSE (IF (a % 2) + (b % 2) > 0 THEN 1 ELSE 0) + 2 * BitOr(a \div 2, b \div 2)

RECURSIVE BitXor(_, _)
BitXor(a, b) ==
    IF a = 0 THEN b
    ELSE IF b = 0 THEN a
    ELSE ((a + b) % 2) + 2 * BitXor(a \div 2, b \div 2)

ShiftLeft(a, n) == a * (2 ^ n)

----------------------------------------------------------------------------
(* Values.  A mnemonic is a Python str, modelled as a sequence of          *)
(* characters; None is a value that is no str.                             *)

None == <<"<None>">>

NoneStr == <<"N", "o", "n", "e">>

RECURSIVE StrMul(_, _)
StrMul(s, n) == IF n <= 0 THEN <<>> ELSE s \o StrMul(s, n - 1)

(* hash(): equal values hash equal; values of different types or different *)
(* contents are taken to hash differently (no accidental collisions).      *)
HashStr(s) == <<"str", s>>

HashNone == <<"NoneType", <<>>>>

(* Mutation of HashTuple: only the last child's hash enters the key. *)
HashTupleLast(sub_hashes) == <<"tuple", <<sub_hashes[Len(sub_hashes)]>>>>

HashTuple(sub_hashes) == <<"tuple", sub_hashes>>

hash(v) == IF v = None THEN HashNone ELSE HashStr(v)

----------------------------------------------------------------------------
(* The matchers loop: one (mnemonic, set_bits, any_bits) per rule.         *)

(* Mutation of EncodeBits: only "0" and "1" set a bit of any_bits. *)
RECURSIVE EncodeBitsStrict(_, _, _, _)
EncodeBitsStrict(encoding, i, set_bits, any_bits) ==
    IF i > Len(encoding) THEN <<set_bits, any_bits>>
    ELSE LET bit == encoding[i]
             s1  == ShiftLeft(set_bits, 1)
             a1  == ShiftLeft(any_bits, 1)
             s2  == IF bit = "1" THEN BitOr(s1, 1) ELSE s1
             a2  == IF bit \in {"0", "1"} THEN BitOr(a1, 1) ELSE a1
         IN  EncodeBitsStrict(encoding, i + 1, s2, a2)

RECURSIVE EncodeBits(_, _, _, _)
EncodeBits(encoding, i, set_bits, any_bits) ==
    IF i > Len(encoding) THEN <<set_bits, any_bits>>
    ELSE LET bit == encoding[i]
             s1  == ShiftLeft(set_bits, 1)
             a1  == ShiftLeft(any_bits, 1)
             s2  == IF bit = "1" THEN BitOr(s1, 1) ELSE s1
             a2  == IF bit # "x" THEN BitOr(a1, 1) ELSE a1
         IN  EncodeBits(encoding, i + 1, s2, a2)

Matcher(rule) ==
    LET bits == EncodeBits(rule[2], 1, 0, 0)
    IN  <<rule[1], bits[1], bits[2]>>

BuildMatchers(table) == [k \in 1 .. Len(table) |-> Matcher(table[k])]

----------------------------------------------------------------------------
(* match(word): first matcher in list order that accepts the word.         *)

Accepts(m, word) == BitXor(BitAnd(word, m[3]), m[2]) = 0

RECURSIVE matchFrom(_, _)
matchFrom(k, word) ==
    IF k > Len(matchers) THEN None
    ELSE IF Accepts(matchers[k], word) THEN matchers[k][1]
    ELSE matchFrom(k + 1, word)

(* Mutation of match: the last accepting matcher wins. *)
RECURSIVE matchBack(_, _)
matchBack(k, word) ==
    IF k < 1 THEN None
    ELSE IF Accepts(matchers[k], word) THEN matchers[k][1]
    ELSE matchBack(k - 1, word)

matchLast(word) == matchBack(Len(matchers), word)

match(word) == matchFrom(1, word)

----------------------------------------------------------------------------
(* check(prefix, lvl): the collapse scan, the recursion into the children, *)
(* the shape key and the registry test.  The print calls only write to     *)
(* standard output and are left out.                                       *)

(* Mutation of ScanRange: one bit too many. *)
ScanRangeWide(lvl) == 2 ^ (WordBits - lvl * NibbleBits + 1)

ScanRange(lvl) == 2 ^ (WordBits - lvl * NibbleBits)

(* Mutation of Breaks: the guard on None is dropped. *)
BreaksAny(matcher, matched) == matcher # matched

Breaks(matcher, matched) == matcher # None /\ matcher # matched

(* One iteration of the scan loop for the given pattern. *)
ScanStep(prefix, lvl, pattern, st) ==
    LET matched ==
            match(BitOr(ShiftLeft(prefix, WordBits - lvl * NibbleBits), pattern))
    IN  IF Breaks(st.matcher, matched)
        THEN [same |-> FALSE, matcher |-> st.matcher, evals |-> st.evals + 1]
        ELSE [same |-> TRUE, matcher |-> matched, evals |-> st.evals + 1]

(* The loop over pattern = lo .. hi-1 in increasing order, leaving the     *)
(* loop at the first break; the range is halved only to keep the           *)
(* evaluation shallow.                                                     *)
RECURSIVE ScanLoop(_, _, _, _, _)
ScanLoop(prefix, lvl, lo, hi, st) ==
    IF ~st.same \/ lo >= hi THEN st
    ELSE IF hi - lo = 1 THEN ScanStep(prefix, lvl, lo, st)
    ELSE LET mid == (lo + hi) \div 2
         IN  ScanLoop(prefix, lvl, mid, hi, ScanLoop(prefix, lvl, lo, mid, st))

Scan(prefix, lvl) ==
    IF lvl < MaxLvl
    THEN ScanLoop(prefix, lvl, 0, ScanRange(lvl),
                  [same |-> TRUE, matcher |-> None, evals |-> 0])
    ELSE [same |-> TRUE, matcher |-> match(prefix), evals |-> 1]

(* Mutation of LeafCost: one table more per Leaf, one entry at the last level. *)
LeafCostFlat(lvl) == IF lvl < MaxLvl THEN (MaxLvl - lvl) * Fanout ELSE 1

LeafCost(lvl) == IF lvl < MaxLvl THEN (3 - lvl) * Fanout ELSE 0

LeafKey(matcher, lvl) ==
    IF lvl < MaxLvl
    THEN IF matcher = None
         THEN hash(StrMul(NoneStr, MaxLvl - lvl))
         ELSE hash(StrMul(matcher, MaxLvl - lvl))
    ELSE hash(matcher)

(* Mutation of Register: the hash is not added. *)
RegisterNothing(registry, full_hash) == registry

Register(registry, full_hash) == registry \cup {full_hash}

RECURSIVE check(_, _, _)

(* One iteration of the loop over the children: the call for child i and   *)
(* what the loop keeps of it.                                              *)
ChildStep(prefix, lvl, i, acc) ==
    LET sub == check(ShiftLeft(prefix, NibbleBits) + i, lvl + 1, acc.luts)
    IN  [entries    |-> acc.entries + sub.entries,
         sub_ents   |-> Append(acc.sub_ents, sub.entries),
         sub_hashes |-> Append(acc.sub_hashes, sub.hash),
         luts       |-> sub.luts,
         nodes      |-> acc.nodes \o sub.nodes]

(* The loop over i = lo .. hi-1 in increasing order, each child called     *)
(* with the registry the child before it left.                             *)
RECURSIVE Children(_, _, _, _, _)
Children(prefix, lvl, lo, hi, acc) ==
    IF lo >= hi THEN acc
    ELSE IF hi - lo = 1 THEN ChildStep(prefix, lvl, lo, acc)
    ELSE LET mid == (lo + hi) \div 2
         IN  Children(prefix, lvl, mid, hi, Children(prefix, lvl, lo, mid, acc))

(* The result carries, besides the returned pair and the registry after    *)
(* the call, one record per node visited, in the order the nodes finish.   *)
check(prefix, lvl, registry) ==
    LET s    == Scan(prefix, lvl)
        body == IF ~s.same
                THEN Children(prefix, lvl, 0, Fanout,
                              [entries |-> Fanout, sub_ents |-> <<>>,
                               sub_hashes |-> <<>>, luts |-> registry,
                               nodes |-> <<>>])
                ELSE [entries |-> LeafCost(lvl), sub_ents |-> <<>>,
                      sub_hashes |-> <<>>, luts |-> registry, nodes |-> <<>>]
        full_hash == IF ~s.same THEN HashTuple(body.sub_hashes)
                     ELSE LeafKey(s.matcher, lvl)
        seen == full_hash \in body.luts
        node == [prefix |-> prefix, lvl |-> lvl, same |-> s.same,
                 matcher |-> s.matcher, evals |-> s.evals,
                 entries |-> body.entries, sub_ents |-> body.sub_ents,
                 hash |-> full_hash, seen |-> seen,
                 ret |-> IF seen THEN 0 ELSE body.entries]
    IN  [entries |-> node.ret,
         hash    |-> full_hash,
         luts    |-> IF seen THEN body.luts ELSE Register(body.luts, full_hash),
         nodes   |-> Append(body.nodes, node)]

----------------------------------------------------------------------------
(* Inputs: small rule tables, among them patterns that are too short, too  *)
(* long or hold a symbol outside {0,1,x}, and a mnemonic spelled "None".   *)

Xs(n) == [j \in 1 .. n |-> "x"]

Rules ==
    { << <<"A">>,      Xs(WordBits - 1) \o <<"1">> >>,
      << <<"A", "A">>, <<"1", "0">> \o Xs(WordBits - 2) >>,
      << NoneStr,      <<"1">> \o Xs(WordBits - 2) >>,
      << <<"A", "A">>, <<"1">> \o Xs(WordBits) >>,
      << <<"A">>,      <<"y">> \o Xs(WordBits - 2) \o <<"0">> >> }

Tables == UNION { [1 .. n -> Rules] : n \in 1 .. MaxRules }

CallArgs ==
    { <<0, 0>>, <<Fanout ^ (MaxLvl - 1) - 1, MaxLvl - 1>>, <<NumWords - 1, MaxLvl>> }

----------------------------------------------------------------------------
Init ==
    /\ opcodes \in Tables
    /\ matchers = <<>>
    /\ pc = "load"
    /\ luts = {}
    /\ calls = <<>>
    /\ tree = <<>>
    /\ decoded = [word |-> -1, name |-> None]

(* Module load: the loop that fills matchers. *)
Load ==
    /\ pc = "load"
    /\ matchers' = BuildMatchers(opcodes)
    /\ pc' = "ready"
    /\ UNCHANGED <<opcodes, luts, calls, tree, decoded>>

(* A call match(word). *)
Decode ==
    /\ pc = "ready"
    /\ \E word \in Words :
           decoded' = [word |-> word, name |-> match(word)]
    /\ UNCHANGED <<opcodes, matchers, pc, luts, calls, tree>>

(* A top-level call check(prefix, lvl), run to its return. *)
Check ==
    /\ pc = "ready"
    /\ Len(calls) < MaxCalls
    /\ \E a \in CallArgs :
           LET r == check(a[1], a[2], luts)
           IN  /\ luts' = r.luts
               /\ tree' = r.nodes
               /\ calls' = Append(calls, [prefix |-> a[1], lvl |-> a[2],
                                          entries |-> r.entries, hash |-> r.hash,
                                          before |-> luts])
    /\ UNCHANGED <<opcodes, matchers, pc, decoded>>

NextMatch == Load \/ Decode

SpecMatch == Init /\ [][NextMatch]_vars

Next == Load \/ Check

Spec == Init /\ [][Next]_vars

----------------------------------------------------------------------------
(* Vocabulary of the properties.                                           *)

Bit(w, b) == (w \div (2 ^ b)) % 2

LastCall == calls[Len(calls)]

IsRootRun == calls # <<>> /\ LastCall.prefix = 0 /\ LastCall.lvl = 0

Nodes == { tree[k] : k \in 1 .. Len(tree) }

Leaves == { n \in Nodes : n.same }

(* The words that share prefix P at level L. *)
WordsUnder(P, L) ==
    { P * (Fanout ^ (MaxLvl - L)) + k : k \in 0 .. (Fanout ^ (MaxLvl - L) - 1) }

PrefixOf(w, L) == w \div (Fanout ^ (MaxLvl - L))

AllAgree(P, L) == \A w \in WordsUnder(P, L) : match(w) = match(P * (Fanout ^ (MaxLvl - L)))

RECURSIVE SumOver(_, _, _)
SumOver(q, lo, hi) ==
    IF lo > hi THEN 0
    ELSE IF lo = hi THEN q[lo]
    ELSE LET mid == (lo + hi) \div 2
         IN  SumOver(q, lo, mid) + SumOver(q, mid + 1, hi)

Sum(q) == SumOver(q, 1, Len(q))

ValidPattern(enc) ==
    Len(enc) = WordBits /\ \A j \in 1 .. Len(enc) : enc[j] \in {"0", "1", "x"}

ValidTable == \A k \in 1 .. Len(opcodes) : ValidPattern(opcodes[k][2])

(* (word & care_mask) == required_bits, read off the pattern position by   *)
(* position, leftmost symbol = most significant bit.                       *)
CareAccepts(enc, w) ==
    \A j \in 1 .. WordBits :
        /\ enc[j] = "1" => Bit(w, WordBits - j) = 1
        /\ enc[j] = "0" => Bit(w, WordBits - j) = 0

(* A pattern of any length read right-aligned against the word. *)
RightAligned(enc, w) ==
    \A j \in 1 .. Len(enc) :
        LET b == Len(enc) - j
        IN  CASE enc[j] = "x" -> TRUE
              [] enc[j] = "1" -> b < WordBits /\ Bit(w, b) = 1
              [] OTHER        -> b >= WordBits \/ Bit(w, b) = 0

FirstBy(Acc(_, _), w) ==
    IF \E k \in 1 .. Len(opcodes) : Acc(opcodes[k][2], w)
    THEN opcodes[CHOOSE k \in 1 .. Len(opcodes) :
                     /\ Acc(opcodes[k][2], w)
                     /\ \A i \in 1 .. (k - 1) : ~Acc(opcodes[i][2], w)][1]
    ELSE None

Decoded == pc = "ready" /\ decoded.word >= 0

----------------------------------------------------------------------------
(* C2: for a table of well-formed patterns (WordBits symbols over 0,1,x)   *)
(* match(word) returns the mnemonic of the lowest-index rule whose fixed   *)
(* positions agree with the word, and None when no rule does; when an      *)
(* earlier and a later rule both accept the word the earlier one wins.     *)
C2_FirstMatchWins ==
    (Decoded /\ ValidTable) => decoded.name = FirstBy(CareAccepts, decoded.word)

C2_Witness ==
    /\ Decoded /\ ValidTable
    /\ Len(opcodes) = 2
    /\ opcodes[1][1] # opcodes[2][1]
    /\ CareAccepts(opcodes[1][2], decoded.word)
    /\ CareAccepts(opcodes[2][2], decoded.word)
    /\ decoded.name = opcodes[1][1]

(* C3: the matcher list is built only from tables whose patterns are all   *)
(* WordBits symbols over 0,1,x; a malformed pattern makes the build fail   *)
(* and leaves no matchers.                                                 *)
C3_MalformedRejected ==
    (pc = "ready" \/ matchers # <<>>) => ValidTable

(* C10: a pattern of any length is read right-aligned: a short pattern     *)
(* leaves the high bits free, a long pattern with a "1" beyond the word    *)
(* accepts no word, and every symbol other than "1" and "x" demands a 0    *)
(* bit; match returns the first rule accepting the word in that reading.   *)
C10_RightAligned ==
    Decoded =>
        /\ decoded.name = FirstBy(RightAligned, decoded.word)
        /\ \A k \in 1 .. Len(opcodes) :
               LET enc == opcodes[k][2]
               IN  (\E j \in 1 .. (Len(enc) - WordBits) : enc[j] = "1")
                       => ~Accepts(matchers[k], decoded.word)

C10_Witness ==
    /\ Decoded
    /\ Len(opcodes) = 2
    /\ Len(opcodes[1][2]) > WordBits /\ opcodes[1][2][1] = "1"
    /\ Len(opcodes[2][2]) < WordBits
    /\ decoded.word >= NumWords \div 2
    /\ decoded.name = opcodes[2][1]
    /\ opcodes[2][1] # opcodes[1][1]

----------------------------------------------------------------------------
(* Decoding a word through the tree of the last run: the answer of the     *)
(* Leaf whose prefix the word carries.                                     *)
DecodeViaTree(w) ==
    (CHOOSE n \in Leaves : PrefixOf(w, n.lvl) = n.prefix).matcher

(* C1: after check(0, 0) every word decodes through the tree to match(w):  *)
(* the Leaf reached by the word's nibbles holds match(w).                  *)
C1_TreeEquivalent ==
    IsRootRun =>
        \A w \in Words :
            /\ \E n \in Leaves : PrefixOf(w, n.lvl) = n.prefix
            /\ DecodeViaTree(w) = match(w)

OwnCost(n) == IF n.same THEN n.entries ELSE Fanout

FreshCosts == [k \in 1 .. Len(tree) |-> IF tree[k].seen THEN 0 ELSE OwnCost(tree[k])]

(* C4: from an empty registry, the count returned by check(0, 0) is the    *)
(* sum of the own costs of the nodes whose hash was new when they          *)
(* finished; a node whose hash was already registered returns 0.           *)
C4_CountIsFreshSum ==
    (IsRootRun /\ LastCall.before = {}) =>
        /\ LastCall.entries = Sum(FreshCosts)
        /\ \A n \in Nodes : n.seen => n.ret = 0

C4_Witness ==
    /\ IsRootRun /\ LastCall.before = {}
    /\ LastCall.entries > Fanout
    /\ \E n \in Nodes : ~n.same /\ n.seen
    /\ \E n \in Nodes : n.same /\ ~n.seen /\ n.entries > 0

(* C5 as stated: a first-seen Leaf counts 1 at the last level and          *)
(* (MaxLvl - level) * Fanout above it; a Branch counts Fanout plus what    *)
(* its children returned.                                                  *)
C5_CostAsStated ==
    \A n \in Nodes :
        ~n.seen =>
            /\ (n.same /\ n.lvl = MaxLvl) => n.entries = 1
            /\ (n.same /\ n.lvl < MaxLvl) => n.entries = (MaxLvl - n.lvl) * Fanout
            /\ ~n.same => n.entries = Fanout + Sum(n.sub_ents)

(* C5 amended: a first-seen Leaf counts 0 at the last level and            *)
(* (MaxLvl - 1 - level) * Fanout above it (0 at level MaxLvl - 1); a       *)
(* Branch counts Fanout plus what its Fanout children returned.            *)
C5_CostOfNode ==
    \A n \in Nodes :
        ~n.seen =>
            /\ (n.same /\ n.lvl = MaxLvl) => n.entries = 0
            /\ (n.same /\ n.lvl < MaxLvl) => n.entries = (MaxLvl - 1 - n.lvl) * Fanout
            /\ ~n.same => /\ Len(n.sub_ents) = Fanout
                          /\ n.entries = Fanout + Sum(n.sub_ents)
            /\ n.ret = n.entries

C5_Witness ==
    /\ \E n \in Nodes : ~n.seen /\ n.same /\ n.lvl = MaxLvl
    /\ \E n \in Nodes : ~n.seen /\ n.same /\ n.lvl < MaxLvl - 1
    /\ \E n \in Nodes : ~n.seen /\ ~n.same /\ Sum(n.sub_ents) > 0

(* C6: two Leaves that differ in level or in answer never share a shape    *)
(* key.                                                                    *)
C6_LeafKeysDistinct ==
    \A n1, n2 \in Leaves :
        (n1.lvl # n2.lvl \/ n1.matcher # n2.matcher) => n1.hash # n2.hash

(* C7: a node whose words all decode alike is a Leaf holding that answer   *)
(* and visits no child; a node at the last level is a Leaf holding         *)
(* match(prefix); no node lies below the last level.                       *)
C7_CollapseComplete ==
    /\ \A n \in Nodes :
           /\ n.lvl <= MaxLvl
           /\ (n.lvl < MaxLvl /\ AllAgree(n.prefix, n.lvl)) =>
                  /\ n.same
                  /\ n.matcher = match(n.prefix * (Fanout ^ (MaxLvl - n.lvl)))
                  /\ n.sub_ents = <<>>
           /\ n.lvl = MaxLvl =>
                  /\ n.same
                  /\ n.matcher = match(n.prefix)
                  /\ n.sub_ents = <<>>
    /\ Len(tree) = Cardinality(Nodes)
    /\ calls # <<>> => Len(tree) = 1 + Fanout * Cardinality(Nodes \ Leaves)

C7_Witness ==
    /\ \E n \in Nodes : n.lvl < MaxLvl /\ n.lvl > 0 /\ AllAgree(n.prefix, n.lvl)
                        /\ n.matcher # None
    /\ \E n \in Nodes : n.lvl = MaxLvl /\ n.matcher # None

SameArgs(i, j) == calls[i].prefix = calls[j].prefix /\ calls[i].lvl = calls[j].lvl

(* C8 as stated: two calls with the same arguments return the same pair.   *)
C8_PureAsStated ==
    \A i, j \in 1 .. Len(calls) :
        SameArgs(i, j) =>
            calls[i].entries = calls[j].entries /\ calls[i].hash = calls[j].hash

(* C8 amended: two calls with the same arguments return the same hash, and *)
(* the later one returns 0 entries, its hash being registered by then; the *)
(* entry count is decided by whether the hash is in luts at the call.      *)
C8_HashPureEntriesOnce ==
    /\ \A i, j \in 1 .. Len(calls) :
           (SameArgs(i, j) /\ i < j) =>
               calls[j].hash = calls[i].hash /\ calls[j].entries = 0
    /\ \A i \in 1 .. Len(calls) : calls[i].hash \in luts

C8_Witness ==
    /\ Len(calls) >= 2
    /\ SameArgs(1, 2)
    /\ calls[1].entries > 0
    /\ calls[2].entries = 0

Evals == [k \in 1 .. Len(tree) |-> tree[k].evals]

RECURSIVE NodeBound(_)
NodeBound(l) == IF l < 0 THEN 0 ELSE (Fanout ^ l) + NodeBound(l - 1)

(* C9 as stated: a run check(0, 0) evaluates match at most                 *)
(* 1 + Fanout + ... + Fanout^MaxLvl times.                                 *)
C9_EvalsAsStated ==
    IsRootRun => Sum(Evals) <= NodeBound(MaxLvl)

(* C9 amended: a run check(0, 0) ends after visiting at most               *)
(* 1 + Fanout + ... + Fanout^MaxLvl nodes; a node at level L evaluates     *)
(* match at most once per word under its prefix, so the run evaluates      *)
(* match at most (MaxLvl + 1) * NumWords times.                            *)
C9_EvalsBounded ==
    IsRootRun =>
        /\ Len(tree) <= NodeBound(MaxLvl)
        /\ \A n \in Nodes : n.evals >= 1 /\ n.evals <= Fanout ^ (MaxLvl - n.lvl)
        /\ Sum(Evals) <= (MaxLvl + 1) * NumWords

C9_Witness ==
    /\ IsRootRun
    /\ Sum(Evals) > NodeBound(MaxLvl)

====
